---- MODULE Spec2Model ----
(***************************************************************************)
(* The studio page (App) with its duplex voice session (component          *)
(* VoiceAssistant): navigation, key selection, session life cycle,         *)
(* capture, gapless playback with barge-in, the turn-based transcript,     *)
(* and the video generation of VideoStudio.                                *)
(***************************************************************************)
EXTENDS Integers, Sequences, FiniteSets, TLC

\* ------------------------------------------------------------------ bounds
MaxAttempts == 2        \* calls of startSession in one behaviour (Spec, SpecStart)
MaxRetryAttempts == 3   \* calls of startSession in one behaviour (SpecRetry)
MaxEvents == 2          \* inbound messages handled, whole life cycle (Spec)
MaxPlayEvents == 3      \* inbound messages handled, one Active session (SpecPlay)
MaxDur == 2             \* longest decoded chunk, in clock units
MaxTime == 1            \* last value of the output context's clock
MaxFrames == 1          \* captured blocks
MaxScriptEvents == 7    \* inbound messages handled, whole life cycle (SpecScript)
MaxCaptureFrames == 3   \* captured blocks (SpecCapture)
MaxPicks == 4           \* files chosen as reference images (SpecVideo)
MaxGenerations == 2     \* calls of generateVideo that pass the key check (SpecVideo)
MaxMounts == 2          \* renders of VoiceAssistant, and of VideoStudio, from scratch
MaxKeyRequests == 2     \* calls of window.aistudio.openSelectKey
MaxTurnEvents == 4      \* inbound messages handled, whole life cycle (SpecTurns)

Atts == 1..MaxRetryAttempts
Durations == 1..MaxDur

\* types.ts, lines 1-6: the values of StudioMode
Modes == {"HOME", "IMAGE", "VIDEO", "VOICE"}

VARIABLES
  \* React state of App: the page shown, the authorization signal; and the
  \* calls of the key selector (the request-authorization collaborator)
  mode, isKeySelected, keyRequests,
  \* what window.aistudio.hasSelectedApiKey() answers now
  hasKey,
  \* window.aistudio: whether the helper is there, where the call of
  \* hasSelectedApiKey made by checkKey stands, and the number of calls of
  \* openSelectKey that have not settled
  aistudio,
  \* React state of the VoiceAssistant on the page (the last one rendered)
  isActive, isConnecting, error, transcription, mounted,
  \* refs of VoiceAssistant: one entry per component rendered from scratch,
  \* the last entry is the component on the page
  audioContextRef, outputAudioContextRef, sessionRef,
  nextStartTimeRef, sourcesRef,
  currentInputTranscription, currentOutputTranscription,
  \* the platform: one entry per call of startSession; inst is the component
  \* that made the call
  mediaDevices, nAtt, inst, startPc, conn, inCtx, outCtx, micStream, captureOn,
  deferred,
  \* the clock of the output context held by outputAudioContextRef, one entry
  \* per component
  outTime,
  \* message handlers suspended at `await decodeAudioData`
  decoding,
  \* what was observed so far (history)
  evlog, started, stoppedSrc, endedSrc, lastIntr,
  nFrames, sent, closeCalls, stopRuns, activeAtt, stoppedActive, stoppedEarly,
  \* the conversion of one captured sample: the sample, its 16-bit value,
  \* the value read back from it, and the position of the conversion
  inputData, int16, outputData, codecPc,
  \* the device times read at line 361, by arrival number of the message
  \* (kept by SpecPlayTimed only)
  readAt,
  \* the state of the component VideoStudio and of the calls of generateVideo
  video

appVars == <<mode, isKeySelected, keyRequests, hasKey, aistudio>>
codecVars == <<inputData, int16, outputData, codecPc>>
reactVars == <<isActive, isConnecting, error, transcription, mounted>>
refVars == <<audioContextRef, outputAudioContextRef, sessionRef>>
playVars == <<nextStartTimeRef, sourcesRef, decoding, started, stoppedSrc,
              endedSrc, lastIntr>>
textVars == <<currentInputTranscription, currentOutputTranscription>>
platVars == <<mediaDevices, nAtt, inst, startPc, conn, inCtx, outCtx, micStream,
              captureOn>>
capVars == <<deferred, nFrames, sent>>
histVars == <<closeCalls, stopRuns, activeAtt, stoppedActive, stoppedEarly>>
vars == <<appVars, reactVars, refVars, playVars, textVars, platVars, capVars,
          histVars, outTime, evlog, codecVars, readAt, video>>

\* ------------------------------------------------------------------ helpers
Max(a, b) == IF a >= b THEN a ELSE b

\* the VoiceAssistant on the page, or the last one that was: the number of
\* components rendered from scratch so far
Cur == Len(sessionRef)

\* a setter of React state of component i does nothing once i is unmounted
SetState(i, cur, new) == IF mounted /\ i = Cur THEN new ELSE cur

Last(s) == s[Len(s)]

RECURSIVE SumDur(_, _)
\* the sum of the durations of the first n entries of a start log
SumDur(log, n) == IF n = 0 THEN 0 ELSE SumDur(log, n - 1) + log[n].dur

\* ------------------------------------------------------------------ messages
\* A server message: which parts of serverContent it carries.  The text of a
\* transcription part is the one-token string <<n>>, n the arrival number of
\* the message, so that texts of different messages are told apart.  The
\* field audio is what line 358 finds in modelTurn: "none", no modelTurn (or
\* an empty list of parts), the read gives undefined; "noinline", a modelTurn
\* whose first part has no inlineData (a text part) or that has no parts, the
\* read throws; "ok" and "bad", inline data that decodes or does not.
AllMessages ==
  [out : BOOLEAN, inp : BOOLEAN, tc : BOOLEAN,
   audio : {"none", "noinline", "ok", "bad"}, dur : 0..MaxDur,
   intr : BOOLEAN]

\* line 358: the read of the inline data of the first part gives data
HasData(m) == m.audio \in {"ok", "bad"}

\* line 358: the read throws, and the handler ends there
ReadThrows(m) == m.audio = "noinline"

WellFormed(m) == (m.audio = "ok") <=> (m.dur > 0)

Parts(m) ==
  (IF m.out THEN 1 ELSE 0) + (IF m.inp THEN 1 ELSE 0) + (IF m.tc THEN 1 ELSE 0)
  + (IF m.audio # "none" THEN 1 ELSE 0) + (IF m.intr THEN 1 ELSE 0)

\* the two-part messages whose parts the handler relates to one another:
\* both transcriptions (else-if), a transcription with the turn-complete flag
\* (append, then flush), a model turn with the interruption flag (start, then
\* flush)
Combined(m) ==
  /\ Parts(m) = 2
  /\ \/ m.out /\ m.inp
     \/ m.tc /\ (m.out \/ m.inp)
     \/ m.intr /\ m.audio # "none"

\* the messages of an Active session
Messages == {m \in AllMessages : WellFormed(m) /\ (Parts(m) = 1 \/ Combined(m))}

\* the messages used while the whole life cycle is explored
LifeMessages ==
  {m \in Messages : /\ Parts(m) = 1
                    /\ ~m.inp
                    /\ m.audio \in {"none", "ok"}
                    /\ m.dur <= 1}

\* ------------------------------------------------------------------ Init
NoCalls == [conn |-> 0, input |-> 0, output |-> 0]

\* no sample is being converted, no device time kept
CodecIdle ==
  inputData = 0 /\ int16 = 0 /\ outputData = 0 /\ codecPc = "idle" /\ readAt = {}

\* no VideoStudio was rendered yet: no reference image, no file being read,
\* no generation, no status timer
NoVideo ==
  [inst |-> 0, refImages |-> <<>>, reading |-> {}, picked |-> 0,
   isGenerating |-> FALSE, status |-> "", videoUrl |-> 0,
   gens |-> <<>>, requests |-> 0, timers |-> {}]

\* the browser before any call of startSession
NoSession ==
  /\ mediaDevices \in BOOLEAN
  /\ nAtt = 0
  /\ inst = [a \in Atts |-> 0]
  /\ startPc = [a \in Atts |-> "idle"]
  /\ conn = [a \in Atts |-> "none"]
  /\ inCtx = [a \in Atts |-> "none"]
  /\ outCtx = [a \in Atts |-> "none"]
  /\ micStream = {}
  /\ captureOn = [a \in Atts |-> FALSE]
  /\ deferred = [a \in Atts |-> <<>>]
  /\ decoding = {}
  /\ evlog = <<>> /\ started = <<>> /\ stoppedSrc = {} /\ endedSrc = {}
  /\ lastIntr = 0
  /\ nFrames = 0 /\ sent = <<>>
  /\ closeCalls = [a \in Atts |-> NoCalls]
  /\ stopRuns = 0 /\ activeAtt = 0
  /\ stoppedActive = {} /\ stoppedEarly = {}

\* App.tsx, lines 18-32: the first render of App, on the home page, and its
\* effect checkKey run up to `await hasSelectedApiKey()`; without the helper
\* window.aistudio the signal is set at once (line 28)
InitApp ==
  /\ mode = "HOME"
  /\ \E p \in BOOLEAN :
       /\ aistudio = [present |-> p,
                      hasSelectedApiKey |-> IF p THEN "await" ELSE "none",
                      openSelectKey |-> 0]
       /\ isKeySelected = ~p
  /\ hasKey \in BOOLEAN /\ keyRequests = 0

\* the page as it is loaded: no VoiceAssistant and no VideoStudio rendered
Init ==
  /\ InitApp /\ CodecIdle /\ NoSession
  /\ video = NoVideo
  /\ isActive = FALSE /\ isConnecting = FALSE /\ error = "null"
  /\ transcription = <<>> /\ mounted = FALSE
  /\ audioContextRef = <<>> /\ outputAudioContextRef = <<>> /\ sessionRef = <<>>
  /\ nextStartTimeRef = <<>> /\ sourcesRef = <<>>
  /\ currentInputTranscription = <<>> /\ currentOutputTranscription = <<>>
  /\ outTime = <<>>

\* lines 255-267: the first VoiceAssistant at its first render
InitComponent ==
  /\ isActive = FALSE /\ isConnecting = FALSE /\ error = "null"
  /\ transcription = <<>> /\ mounted = TRUE
  /\ audioContextRef = <<0>> /\ outputAudioContextRef = <<0>>
  /\ sessionRef = <<0>>
  /\ nextStartTimeRef = <<0>> /\ sourcesRef = << {} >>
  /\ currentInputTranscription = << <<>> >>
  /\ currentOutputTranscription = << <<>> >>
  /\ outTime = <<0>>

\* the voice page, opened from the home page after checkKey has set the
\* signal to the answer of hasSelectedApiKey()
InitPage ==
  /\ mode = "VOICE"
  /\ aistudio = [present |-> TRUE, hasSelectedApiKey |-> "done",
                 openSelectKey |-> 0]
  /\ hasKey \in BOOLEAN /\ isKeySelected = hasKey /\ keyRequests = 0
  /\ NoSession /\ InitComponent
  /\ video = NoVideo

InitVoice == InitPage /\ CodecIdle

\* ------------------------------------------------------------------ stopSession
Bump(n) == IF n < 2 THEN n + 1 ELSE 2

\* session.close() on a connection in state s
ConnAfterClose(s) == IF s \in {"opening", "open"} THEN "closing" ELSE s

\* the session of the spec's Active state: the open callback has run and the
\* session handle is stored
Active == isActive /\ activeAtt # 0 /\ sessionRef[Cur] = activeAtt

\* attempts of component i that wait for the microphone or for the handshake
Waiting(i) ==
  {a \in Atts : inst[a] = i /\ startPc[a] \in {"mic", "connect"} /\ ~captureOn[a]}

\* lines 270-275: the close() calls of one run of stopSession, in the order in
\* which they are made, given what the three refs hold (0 for null)
Closes(s, i, o) ==
  (IF s # 0 THEN <<[res |-> "conn", att |-> s]>> ELSE <<>>)
  \o (IF i # 0 THEN <<[res |-> "input", att |-> i]>> ELSE <<>>)
  \o (IF o # 0 THEN <<[res |-> "output", att |-> o]>> ELSE <<>>)

\* close() is called on resource r of attempt a in the run T
Called(T, r, a) == \E k \in 1..Len(T) : T[k] = [res |-> r, att |-> a]

\* stopSession of component i, run on the connection states connNow
stopSession(i, connNow) ==
  /\ conn' = IF sessionRef[i] # 0
               THEN [connNow EXCEPT ![sessionRef[i]] = ConnAfterClose(@)]
               ELSE connNow
  /\ sessionRef' = [sessionRef EXCEPT ![i] = 0]
  /\ inCtx' = IF audioContextRef[i] # 0
                THEN [inCtx EXCEPT ![audioContextRef[i]] = "closed"]
                ELSE inCtx
  /\ outCtx' = IF outputAudioContextRef[i] # 0
                 THEN [outCtx EXCEPT ![outputAudioContextRef[i]] = "closed"]
                 ELSE outCtx
  /\ isActive' = SetState(i, isActive, FALSE)
  /\ isConnecting' = SetState(i, isConnecting, FALSE)
  /\ closeCalls' =
       LET T == Closes(sessionRef[i], audioContextRef[i],
                       outputAudioContextRef[i]) IN
       [a \in Atts |->
          [conn |-> IF Called(T, "conn", a) THEN Bump(closeCalls[a].conn)
                                            ELSE closeCalls[a].conn,
           input |-> IF Called(T, "input", a) THEN Bump(closeCalls[a].input)
                                              ELSE closeCalls[a].input,
           output |-> IF Called(T, "output", a) THEN Bump(closeCalls[a].output)
                                                ELSE closeCalls[a].output]]
  /\ stopRuns' = IF i # Cur THEN stopRuns
                 ELSE IF stopRuns = 0 THEN (IF Active THEN 1 ELSE 0)
                 ELSE Bump(stopRuns)
  /\ stoppedActive' = IF i = Cur /\ Active THEN stoppedActive \cup {activeAtt}
                                           ELSE stoppedActive
  /\ stoppedEarly' = stoppedEarly \cup Waiting(i)
  /\ activeAtt' = activeAtt
  /\ UNCHANGED <<audioContextRef, outputAudioContextRef>>

\* ------------------------------------------------------------------ App
\* App.tsx, lines 34-36: handleOpenKeySelector up to its await: with the
\* helper window.aistudio, openSelectKey is called; without it nothing is done
openSelectKey ==
  IF aistudio.present
    THEN /\ keyRequests' = keyRequests + 1
         /\ aistudio' = [aistudio EXCEPT !.openSelectKey = @ + 1]
    ELSE UNCHANGED <<keyRequests, aistudio>>

\* what no step of App or VideoStudio changes
voiceVars == <<reactVars, refVars, playVars, textVars, platVars, capVars,
               histVars, outTime, evlog, codecVars, readAt>>

\* "Select API Key" on the home page (App.tsx, lines 93-109) or on the video
\* page (VideoStudio.tsx, lines 164-172), shown while the signal is false
handleOpenKeySelector ==
  /\ mode \in {"HOME", "VIDEO"} /\ ~isKeySelected
  /\ openSelectKey
  /\ UNCHANGED <<mode, isKeySelected, hasKey, video, voiceVars>>

\* App.tsx, lines 36-37: a call of openSelectKey resolves, with or without a
\* key selected in its dialog, and the signal is set without a second look
openSelectKeyResolved ==
  /\ aistudio.openSelectKey > 0
  /\ aistudio' = [aistudio EXCEPT !.openSelectKey = @ - 1]
  /\ \E k \in BOOLEAN : hasKey' = k
  /\ isKeySelected' = TRUE
  /\ UNCHANGED <<mode, keyRequests, video, voiceVars>>

\* App.tsx, line 36: a call of openSelectKey rejects; line 37 is not reached
openSelectKeyRejected ==
  /\ aistudio.openSelectKey > 0
  /\ aistudio' = [aistudio EXCEPT !.openSelectKey = @ - 1]
  /\ UNCHANGED <<mode, isKeySelected, keyRequests, hasKey, video, voiceVars>>

\* App.tsx, lines 24-25: hasSelectedApiKey() resolves and checkKey sets the
\* signal to its answer
checkKeyResolved ==
  /\ aistudio.hasSelectedApiKey = "await"
  /\ aistudio' = [aistudio EXCEPT !.hasSelectedApiKey = "done"]
  /\ isKeySelected' = hasKey
  /\ UNCHANGED <<mode, keyRequests, hasKey, video, voiceVars>>

\* App.tsx, line 24: hasSelectedApiKey() rejects; line 25 is not reached
checkKeyRejected ==
  /\ aistudio.hasSelectedApiKey = "await"
  /\ aistudio' = [aistudio EXCEPT !.hasSelectedApiKey = "failed"]
  /\ UNCHANGED <<mode, isKeySelected, keyRequests, hasKey, video, voiceVars>>

\* ------------------------------------------------------------------ the user
\* "Start Conversation" / "Try Again": startSession up to its first await
ClickStart ==
  /\ mounted
  /\ error # "null" \/ (~isConnecting /\ ~isActive)
  /\ nAtt < MaxRetryAttempts
  /\ nAtt' = nAtt + 1
  /\ inst' = [inst EXCEPT ![nAtt + 1] = Cur]
  /\ transcription' = <<>>
  /\ IF mediaDevices
       THEN /\ error' = "null"
            /\ isConnecting' = TRUE
            /\ startPc' = [startPc EXCEPT ![nAtt + 1] = "mic"]
       ELSE /\ error' = "unsupported"
            /\ isConnecting' = FALSE
            /\ startPc' = [startPc EXCEPT ![nAtt + 1] = "done"]
  /\ stopRuns' = 0
  /\ UNCHANGED <<appVars, codecVars, readAt, video, isActive, mounted, refVars, playVars, textVars, mediaDevices,
                 conn, inCtx, outCtx, micStream, captureOn, capVars, closeCalls,
                 activeAtt, stoppedActive, stoppedEarly, outTime, evlog>>

\* "End Conversation"
ClickStop ==
  /\ mounted /\ error = "null" /\ ~isConnecting /\ isActive
  /\ stopSession(Cur, conn)
  /\ UNCHANGED <<appVars, codecVars, readAt, video, error, transcription, mounted, playVars, textVars, mediaDevices,
                 nAtt, inst, startPc, micStream, captureOn, capVars, outTime, evlog>>

\* lines 412-414: the effect cleanup of the component on the page, which is
\* taken off the page
Unmount ==
  /\ stopSession(Cur, conn)
  /\ mounted' = FALSE
  /\ UNCHANGED <<error, transcription, nextStartTimeRef, sourcesRef, textVars,
                 outTime>>

\* lines 255-267: a VoiceAssistant is rendered from scratch
Mount ==
  /\ mounted' = TRUE
  /\ isActive' = FALSE /\ isConnecting' = FALSE /\ error' = "null"
  /\ transcription' = <<>>
  /\ audioContextRef' = Append(audioContextRef, 0)
  /\ outputAudioContextRef' = Append(outputAudioContextRef, 0)
  /\ sessionRef' = Append(sessionRef, 0)
  /\ nextStartTimeRef' = Append(nextStartTimeRef, 0)
  /\ sourcesRef' = Append(sourcesRef, {})
  /\ currentInputTranscription' = Append(currentInputTranscription, <<>>)
  /\ currentOutputTranscription' = Append(currentOutputTranscription, <<>>)
  /\ outTime' = Append(outTime, 0)
  /\ stopRuns' = 0 /\ activeAtt' = 0
  /\ UNCHANGED <<conn, inCtx, outCtx, closeCalls, stoppedActive, stoppedEarly>>

\* the VideoStudio on the page is taken off: its React state is gone, and the
\* reads under way end in a setter of that state, which does nothing; the
\* calls of generateVideo and their timers go on
TakenOff(v) ==
  [v EXCEPT !.refImages = <<>>, !.reading = {},
            !.isGenerating = FALSE, !.status = "", !.videoUrl = 0]

\* VideoStudio.tsx, lines 25-33: a VideoStudio is rendered from scratch
FirstRender(v) == [TakenOff(v) EXCEPT !.inst = @ + 1]

\* App.tsx, lines 71-87 and 121-151: a card or a button of the navigation bar
\* sets the page; renderContent (lines 41-48) takes the component of the old
\* page off and renders the one of the new page from scratch
setMode(m) ==
  /\ m \in Modes /\ m # mode
  /\ mode' = m
  /\ IF mode = "VOICE" THEN Unmount
     ELSE IF m = "VOICE" THEN Mount
     ELSE UNCHANGED <<reactVars, refVars, nextStartTimeRef, sourcesRef,
                      textVars, outTime, conn, inCtx, outCtx, histVars>>
  /\ video' = IF m = "VIDEO" THEN FirstRender(video)
              ELSE IF mode = "VIDEO" THEN TakenOff(video) ELSE video
  /\ UNCHANGED <<isKeySelected, keyRequests, hasKey, aistudio, codecVars,
                 readAt, mediaDevices, nAtt, inst, startPc, micStream,
                 captureOn, capVars, decoding, started, stoppedSrc, endedSrc,
                 lastIntr, evlog>>

\* ------------------------------------------------------------------ startSession
MicErrors == {"nomic", "denied", "micerr"}

\* getUserMedia resolves: the contexts are created and the connection is asked for
MicGranted(a) ==
  /\ startPc[a] = "mic"
  /\ micStream' = micStream \cup {a}
  /\ inCtx' = [inCtx EXCEPT ![a] = "running"]
  /\ outCtx' = [outCtx EXCEPT ![a] = "running"]
  /\ audioContextRef' = [audioContextRef EXCEPT ![inst[a]] = a]
  /\ outputAudioContextRef' = [outputAudioContextRef EXCEPT ![inst[a]] = a]
  /\ outTime' = [outTime EXCEPT ![inst[a]] = 0]
  /\ conn' = [conn EXCEPT ![a] = "opening"]
  /\ startPc' = [startPc EXCEPT ![a] = "connect"]
  /\ UNCHANGED <<appVars, codecVars, readAt, video, reactVars, sessionRef, playVars, textVars, mediaDevices, nAtt,
                 inst, captureOn, capVars, histVars, evlog>>

\* the catch block of startSession
Catch(a, msg) ==
  /\ isConnecting' = SetState(inst[a], isConnecting, FALSE)
  /\ error' = SetState(inst[a], error, msg)
  /\ startPc' = [startPc EXCEPT ![a] = "done"]

\* getUserMedia rejects
MicDenied(a, msg) ==
  /\ startPc[a] = "mic"
  /\ Catch(a, msg)
  /\ UNCHANGED <<appVars, codecVars, readAt, video, isActive, transcription, mounted, refVars, playVars, textVars,
                 mediaDevices, nAtt, inst, conn, inCtx, outCtx, micStream, captureOn,
                 capVars, histVars, outTime, evlog>>

\* the open callback of the connection
onopen(a) ==
  /\ conn[a] = "opening"
  /\ conn' = [conn EXCEPT ![a] = "open"]
  /\ isConnecting' = SetState(inst[a], isConnecting, FALSE)
  /\ isActive' = SetState(inst[a], isActive, TRUE)
  /\ captureOn' = [captureOn EXCEPT ![a] = TRUE]
  /\ activeAtt' = IF inst[a] = Cur THEN a ELSE activeAtt
  /\ stopRuns' = IF inst[a] = Cur THEN 0 ELSE stopRuns
  /\ UNCHANGED <<appVars, codecVars, readAt, video, error, transcription, mounted, refVars, playVars, textVars,
                 mediaDevices, nAtt, inst, startPc, inCtx, outCtx, micStream, capVars,
                 closeCalls, stoppedActive, stoppedEarly, outTime, evlog>>

\* one frame as it goes out on the connection of attempt a
Outbound(a, f) == [att |-> a, frame |-> f]

\* a variant: the deferred sends made last queued first
FlushLastFirst(a, q) == [i \in 1..Len(q) |-> Outbound(a, q[Len(q) + 1 - i])]

RECURSIVE Flush(_, _)
\* the deferred sends of attempt a, in the order in which they were queued
Flush(a, q) == IF q = <<>> THEN <<>>
               ELSE <<Outbound(a, Head(q))>> \o Flush(a, Tail(q))

\* the session promise resolves: sessionRef.current = await sessionPromise
sessionResolved(a) ==
  /\ startPc[a] = "connect" /\ captureOn[a]
  /\ sessionRef' = [sessionRef EXCEPT ![inst[a]] = a]
  /\ startPc' = [startPc EXCEPT ![a] = "done"]
  /\ sent' = sent \o Flush(a, deferred[a])
  /\ deferred' = [deferred EXCEPT ![a] = <<>>]
  /\ UNCHANGED <<appVars, codecVars, readAt, video, reactVars, audioContextRef, outputAudioContextRef, playVars,
                 textVars, mediaDevices, nAtt, inst, conn, inCtx, outCtx, micStream,
                 captureOn, nFrames, histVars, outTime, evlog>>

\* the session promise rejects: the handshake failed
connectRejected(a) ==
  /\ startPc[a] = "connect" /\ ~captureOn[a]
  /\ conn[a] \in {"opening", "errored", "closed"}
  /\ conn' = [conn EXCEPT ![a] = IF @ = "opening" THEN "closed" ELSE @]
  /\ Catch(a, "connfail")
  /\ UNCHANGED <<appVars, codecVars, readAt, video, isActive, transcription, mounted, refVars, playVars, textVars,
                 mediaDevices, nAtt, inst, inCtx, outCtx, micStream, captureOn,
                 capVars, histVars, outTime, evlog>>

\* the error callback of the connection
onerror(a) ==
  /\ conn[a] \in {"opening", "open"}
  /\ error' = SetState(inst[a], error, "lost")
  /\ stopSession(inst[a], [conn EXCEPT ![a] = "errored"])
  /\ UNCHANGED <<appVars, codecVars, readAt, video, transcription, mounted, playVars, textVars, mediaDevices,
                 nAtt, inst, startPc, micStream, captureOn, capVars, outTime, evlog>>

\* the close callback of the connection: after session.close(), after an
\* error, or when the remote side closes
onclose(a) ==
  /\ conn[a] \in {"open", "closing", "errored"}
  /\ stopSession(inst[a], [conn EXCEPT ![a] = "closed"])
  /\ UNCHANGED <<appVars, codecVars, readAt, video, error, transcription, mounted, playVars, textVars, mediaDevices,
                 nAtt, inst, startPc, micStream, captureOn, capVars, outTime, evlog>>

\* a variant: the handle taken as resolved once the open callback has run
ResolvedAtOnce(a) == captureOn[a]
\* the promise of attempt a has resolved
Resolved(a) == startPc[a] = "done" /\ captureOn[a]

\* scriptProcessor.onaudioprocess: one captured block
onaudioprocess(a) ==
  /\ captureOn[a] /\ inCtx[a] = "running"
  /\ nFrames' = nFrames + 1
  /\ IF Resolved(a)
       THEN /\ sent' = Append(sent, Outbound(a, nFrames + 1))
            /\ UNCHANGED deferred
       ELSE /\ deferred' = [deferred EXCEPT ![a] = Append(@, nFrames + 1)]
            /\ UNCHANGED sent
  /\ UNCHANGED <<appVars, codecVars, readAt, video, reactVars, refVars, playVars, textVars, platVars, histVars,
                 outTime, evlog>>

\* ------------------------------------------------------------------ onmessage
\* lines 339-343: the transcription part of message number id
AppendOut(acc, m, id) == IF m.out THEN acc \o <<id>> ELSE acc
AppendIn(acc, m, id) == IF ~m.out /\ m.inp THEN acc \o <<id>> ELSE acc

\* lines 349-352: the turns of one flush
UserTurn(u) == IF u # <<>> THEN <<[role |-> "user", text |-> u]>> ELSE <<>>
ModelTurn(t) == IF t # <<>> THEN <<[role |-> "model", text |-> t]>> ELSE <<>>
\* a variant: the model turn put first
TurnsModelFirst(u, t) == ModelTurn(t) \o UserTurn(u)
Turns(u, t) == UserTurn(u) \o ModelTurn(t)

\* lines 354-355: the accumulators after a flush
AfterFlush(acc) == <<>>

\* line 361: the cursor when an audio chunk arrives at device time now
CursorOnArrival(cursor, now) == Max(cursor, now)

\* line 373: the cursor after a buffer of duration d was started
CursorAfterStart(cursor, d) == cursor + d

\* a variant: the cursor left as it was
CursorKept(cursor) == cursor
\* line 380: the cursor after an interruption
CursorAfterInterrupt(cursor) == 0

\* line 379: the handles kept after an interruption
SourcesAfterInterrupt(srcs) == {}

\* a transcript that lost what it held
ReplaceTurns(log, turns) == turns
\* lines 347-353: setTranscription(prev => [...prev, ...turns])
AppendTurns(log, turns) == log \o turns

\* the handler up to its first await; a message without inline data is
\* handled whole, up to the read of line 358 when that read throws; reads is
\* what is kept of the device times read so far
onmessageRead(a, m, reads) ==
  LET id == Len(evlog) + 1
      i == inst[a]
      outAcc == AppendOut(currentOutputTranscription[i], m, id)
      inAcc == AppendIn(currentInputTranscription[i], m, id)
  IN
  /\ conn[a] = "open"
  /\ evlog' = Append(evlog, [att |-> a, msg |-> m])
  /\ IF m.tc
       THEN /\ transcription' =
                 IF inAcc # <<>> \/ outAcc # <<>>
                   THEN SetState(i, transcription,
                                 AppendTurns(transcription, Turns(inAcc, outAcc)))
                   ELSE transcription
            /\ currentInputTranscription' =
                 [currentInputTranscription EXCEPT ![i] = AfterFlush(inAcc)]
            /\ currentOutputTranscription' =
                 [currentOutputTranscription EXCEPT ![i] = AfterFlush(outAcc)]
       ELSE /\ currentInputTranscription' =
                 [currentInputTranscription EXCEPT ![i] = inAcc]
            /\ currentOutputTranscription' =
                 [currentOutputTranscription EXCEPT ![i] = outAcc]
            /\ UNCHANGED transcription
  /\ IF HasData(m)
       THEN /\ nextStartTimeRef' =
                 [nextStartTimeRef EXCEPT ![i] = CursorOnArrival(@, outTime[i])]
            /\ decoding' = decoding \cup
                 {[id |-> id, att |-> a, ctx |-> outputAudioContextRef[i],
                   audio |-> m.audio, dur |-> m.dur, intr |-> m.intr]}
            /\ UNCHANGED <<sourcesRef, stoppedSrc, lastIntr>>
       ELSE IF m.intr /\ ~ReadThrows(m)
         THEN /\ stoppedSrc' = stoppedSrc \cup sourcesRef[i]
              /\ sourcesRef' =
                   [sourcesRef EXCEPT ![i] = SourcesAfterInterrupt(@)]
              /\ nextStartTimeRef' =
                   [nextStartTimeRef EXCEPT ![i] = CursorAfterInterrupt(@)]
              /\ lastIntr' = id
              /\ UNCHANGED decoding
         ELSE UNCHANGED <<nextStartTimeRef, sourcesRef, stoppedSrc, lastIntr,
                          decoding>>
  /\ readAt' = reads
  /\ UNCHANGED <<appVars, codecVars, video, isActive, isConnecting, error, mounted, refVars,
                 started, endedSrc, platVars, capVars, histVars, outTime>>

\* the handler, the device times it reads not kept
onmessage(a, m) == onmessageRead(a, m, readAt)

\* the handler, the device time it reads at line 361 kept
onmessageTimed(a, m) ==
  onmessageRead(a, m,
    IF HasData(m)
      THEN readAt \cup {[id |-> Len(evlog) + 1, now |-> outTime[inst[a]]]}
      ELSE readAt)

\* decodeAudioData settles and the handler h runs to its end
decodeDone(h) ==
  LET i == inst[h.att] IN
  /\ h \in decoding
  /\ decoding' = decoding \ {h}
  /\ IF h.audio = "bad"
       THEN UNCHANGED <<nextStartTimeRef, sourcesRef, started, stoppedSrc, lastIntr>>
       ELSE /\ started' = Append(started,
                 [id |-> h.id, att |-> h.att, ctx |-> h.ctx,
                  when |-> nextStartTimeRef[i], dur |-> h.dur,
                  clock |-> IF h.ctx = outputAudioContextRef[i]
                              THEN outTime[i] ELSE -1,
                  afterIntr |-> lastIntr])
            /\ IF h.intr
                 THEN /\ stoppedSrc' = stoppedSrc \cup sourcesRef[i] \cup {h.id}
                      /\ sourcesRef' = [sourcesRef EXCEPT ![i] =
                           SourcesAfterInterrupt(@ \cup {h.id})]
                      /\ nextStartTimeRef' = [nextStartTimeRef EXCEPT ![i] =
                           CursorAfterInterrupt(CursorAfterStart(@, h.dur))]
                      /\ lastIntr' = h.id
                 ELSE /\ sourcesRef' = [sourcesRef EXCEPT ![i] = @ \cup {h.id}]
                      /\ nextStartTimeRef' = [nextStartTimeRef EXCEPT ![i] =
                           CursorAfterStart(@, h.dur)]
                      /\ UNCHANGED <<stoppedSrc, lastIntr>>
  /\ UNCHANGED <<appVars, codecVars, readAt, video, reactVars, refVars, endedSrc, textVars, platVars, capVars,
                 histVars, outTime, evlog>>

\* the time at which the buffer of start-log entry e is played to its end
EndTime(e) == Max(e.when, e.clock) + e.dur

\* the 'ended' listener of the source of start-log entry k: natural completion
sourceEnded(k) ==
  LET e == started[k]
      i == inst[e.att]
  IN
  /\ e.id \notin stoppedSrc \cup endedSrc
  /\ outCtx[e.ctx] = "running"
  /\ e.ctx = outputAudioContextRef[i] => (e.clock >= 0 /\ outTime[i] >= EndTime(e))
  /\ endedSrc' = endedSrc \cup {e.id}
  /\ sourcesRef' = [sourcesRef EXCEPT ![i] = @ \ {e.id}]
  /\ UNCHANGED <<appVars, codecVars, readAt, video, reactVars, refVars, nextStartTimeRef, decoding, started,
                 stoppedSrc, lastIntr, textVars, platVars, capVars, histVars,
                 outTime, evlog>>

\* the clock of the output context held by outputAudioContextRef of
\* component i advances
Tick(i) ==
  /\ outputAudioContextRef[i] # 0
  /\ outCtx[outputAudioContextRef[i]] = "running"
  /\ outTime[i] < MaxTime
  /\ outTime' = [outTime EXCEPT ![i] = @ + 1]
  /\ UNCHANGED <<appVars, codecVars, readAt, video, reactVars, refVars, playVars, textVars, platVars, capVars,
                 histVars, evlog>>

\* ------------------------------------------------------------------ specifications
\* attempts whose open callback has run and whose promise has not yet resolved
Unresolved == {a \in Atts : startPc[a] = "connect" /\ captureOn[a]}

\* the connect call resolves its promise in the task that ran the open
\* callback: no other callback runs in between, but for the audio callback of
\* the capture pipeline, which the open callback has just started
Settled == Unresolved = {}

\* the page that setMode may show next: a VoiceAssistant or a VideoStudio is
\* rendered from scratch at most MaxMounts times
Shows(m) ==
  /\ m = "VOICE" => Cur < MaxMounts
  /\ m = "VIDEO" => video.inst < MaxMounts

\* the voice page and its sessions; the user may leave it for the home page
\* and open it again
Next ==
  \/ \E a \in Atts : sessionResolved(a)
  \/ Settled /\ nAtt < MaxAttempts /\ ClickStart
  \/ Settled /\ ClickStop
  \/ Settled /\ \E m \in {"HOME", "VOICE"} : Shows(m) /\ setMode(m)
  \/ Settled /\ \E a \in Atts : MicGranted(a)
  \/ Settled /\ \E a \in Atts, msg \in MicErrors : MicDenied(a, msg)
  \/ Settled /\ \E a \in Atts : onopen(a)
  \/ Settled /\ \E a \in Atts : connectRejected(a)
  \/ Settled /\ \E a \in Atts : onerror(a)
  \/ Settled /\ \E a \in Atts : onclose(a)
  \/ nFrames < MaxFrames /\ \E a \in Atts : onaudioprocess(a)
  \/ Settled /\ Len(evlog) < MaxEvents
             /\ \E a \in Atts, m \in LifeMessages : onmessage(a, m)
  \/ Settled /\ \E h \in decoding : decodeDone(h)
  \/ Settled /\ \E k \in 1..Len(started) : sourceEnded(k)
  \/ Settled /\ \E i \in 1..Cur : Tick(i)

Spec == InitVoice /\ [][Next]_vars

\* the life cycle alone: start, stop, errors and capture, no inbound message
NextStart ==
  \/ \E a \in Atts : sessionResolved(a)
  \/ Settled /\ nAtt < MaxAttempts /\ ClickStart
  \/ Settled /\ ClickStop
  \/ Settled /\ \E m \in {"HOME", "VOICE"} : Shows(m) /\ setMode(m)
  \/ Settled /\ \E a \in Atts : MicGranted(a)
  \/ Settled /\ \E a \in Atts, msg \in MicErrors : MicDenied(a, msg)
  \/ Settled /\ \E a \in Atts : onopen(a)
  \/ Settled /\ \E a \in Atts : connectRejected(a)
  \/ Settled /\ \E a \in Atts : onerror(a)
  \/ Settled /\ \E a \in Atts : onclose(a)
  \/ nFrames < MaxFrames /\ \E a \in Atts : onaudioprocess(a)

SpecStart == InitVoice /\ [][NextStart]_vars

\* the life cycle alone, with one more call of startSession
NextRetry ==
  \/ \E a \in Atts : sessionResolved(a)
  \/ Settled /\ ClickStart
  \/ Settled /\ ClickStop
  \/ Settled /\ \E m \in {"HOME", "VOICE"} : Shows(m) /\ setMode(m)
  \/ Settled /\ \E a \in Atts : MicGranted(a)
  \/ Settled /\ \E a \in Atts, msg \in MicErrors : MicDenied(a, msg)
  \/ Settled /\ \E a \in Atts : onopen(a)
  \/ Settled /\ \E a \in Atts : connectRejected(a)
  \/ Settled /\ \E a \in Atts : onerror(a)
  \/ Settled /\ \E a \in Atts : onclose(a)
  \/ nFrames < MaxFrames /\ \E a \in Atts : onaudioprocess(a)

SpecRetry == InitVoice /\ [][NextRetry]_vars


\* the whole page from its load: navigation, the key selection, and the life
\* cycle of the voice sessions of every VoiceAssistant rendered
NextApp ==
  \/ \E a \in Atts : sessionResolved(a)
  \/ Settled /\ \E m \in Modes : Shows(m) /\ setMode(m)
  \/ Settled /\ checkKeyResolved
  \/ Settled /\ checkKeyRejected
  \/ Settled /\ keyRequests < MaxKeyRequests /\ handleOpenKeySelector
  \/ Settled /\ openSelectKeyResolved
  \/ Settled /\ openSelectKeyRejected
  \/ Settled /\ nAtt < MaxAttempts /\ ClickStart
  \/ Settled /\ ClickStop
  \/ Settled /\ \E a \in Atts : MicGranted(a)
  \/ Settled /\ \E a \in Atts, msg \in MicErrors : MicDenied(a, msg)
  \/ Settled /\ \E a \in Atts : onopen(a)
  \/ Settled /\ \E a \in Atts : connectRejected(a)
  \/ Settled /\ \E a \in Atts : onerror(a)
  \/ Settled /\ \E a \in Atts : onclose(a)

SpecApp == Init /\ [][NextApp]_vars

\* one Active session: the state after ClickStart, MicGranted(1), onopen(1)
\* and sessionResolved(1) on the voice page
InitPlay ==
  /\ CodecIdle /\ video = NoVideo
  /\ mode = "VOICE"
  /\ aistudio = [present |-> TRUE, hasSelectedApiKey |-> "done",
                 openSelectKey |-> 0]
  /\ isKeySelected = TRUE /\ keyRequests = 0 /\ hasKey = TRUE
  /\ isActive = TRUE /\ isConnecting = FALSE /\ error = "null"
  /\ transcription = <<>> /\ mounted = TRUE
  /\ audioContextRef = <<1>> /\ outputAudioContextRef = <<1>>
  /\ sessionRef = <<1>>
  /\ nextStartTimeRef = <<0>> /\ sourcesRef = << {} >>
  /\ currentInputTranscription = << <<>> >>
  /\ currentOutputTranscription = << <<>> >>
  /\ mediaDevices = TRUE
  /\ nAtt = 1
  /\ inst = [a \in Atts |-> IF a = 1 THEN 1 ELSE 0]
  /\ startPc = [a \in Atts |-> IF a = 1 THEN "done" ELSE "idle"]
  /\ conn = [a \in Atts |-> IF a = 1 THEN "open" ELSE "none"]
  /\ inCtx = [a \in Atts |-> IF a = 1 THEN "running" ELSE "none"]
  /\ outCtx = [a \in Atts |-> IF a = 1 THEN "running" ELSE "none"]
  /\ micStream = {1}
  /\ captureOn = [a \in Atts |-> a = 1]
  /\ outTime = <<0>>
  /\ deferred = [a \in Atts |-> <<>>]
  /\ decoding = {}
  /\ evlog = <<>> /\ started = <<>> /\ stoppedSrc = {} /\ endedSrc = {}
  /\ lastIntr = 0
  /\ nFrames = 0 /\ sent = <<>>
  /\ closeCalls = [a \in Atts |-> NoCalls]
  /\ stopRuns = 0 /\ activeAtt = 1
  /\ stoppedActive = {} /\ stoppedEarly = {}

NextPlay ==
  \/ Len(evlog) < MaxPlayEvents /\ \E m \in Messages : onmessage(1, m)
  \/ \E h \in decoding : decodeDone(h)
  \/ \E k \in 1..Len(started) : sourceEnded(k)
  \/ Tick(1)

SpecPlay == InitPlay /\ [][NextPlay]_vars

\* the same session, the device times read by its handlers kept
NextPlayTimed ==
  \/ Len(evlog) < MaxPlayEvents /\ \E m \in Messages : onmessageTimed(1, m)
  \/ \E h \in decoding : decodeDone(h)
  \/ \E k \in 1..Len(started) : sourceEnded(k)
  \/ Tick(1)

SpecPlayTimed == InitPlay /\ [][NextPlayTimed]_vars

\* the messages that carry a model turn or the interruption flag, and no
\* transcription
AudioMessages == {m \in Messages : ~m.out /\ ~m.inp /\ ~m.tc}

\* the same session, its messages without transcription
NextAudio ==
  \/ Len(evlog) < MaxPlayEvents /\ \E m \in AudioMessages : onmessage(1, m)
  \/ \E h \in decoding : decodeDone(h)
  \/ \E k \in 1..Len(started) : sourceEnded(k)
  \/ Tick(1)

SpecAudio == InitPlay /\ [][NextAudio]_vars

\* the first state of SpecPlay is a state of the whole life cycle
PlayStartReached == ~InitPlay

\* the first state of the voice specifications is a state of the whole page
VoiceStartReached == ~InitVoice

\* ------------------------------------------------------------------ claims
\* the refs of the VoiceAssistant on the page, under the names of the spec:
\* the playback cursor, activeSources and the two pending texts
cursor == nextStartTimeRef[Cur]
activeSources == sourcesRef[Cur]
pendingInput == currentInputTranscription[Cur]
pendingOutput == currentOutputTranscription[Cur]

\* the start-log entries of the session of attempt a, in start order
StartsOf(a) == SelectSeq(started, LAMBDA e : e.att = a)

\* no message of the session of attempt a carried the interruption flag
NoInterruption(a) ==
  \A j \in 1..Len(evlog) : evlog[j].att = a => ~evlog[j].msg.intr

\* C1: gapless scheduling.  In a session without interruption whose buffers
\* were all started on the session's output context while its clock read 0,
\* the k-th started buffer starts at the sum of the durations of the k-1
\* buffers started before it (the first one at 0).
C1_Gapless ==
  \A a \in Atts :
    LET S == StartsOf(a) IN
      (/\ NoInterruption(a)
       /\ \A k \in 1..Len(S) : S[k].ctx = a /\ S[k].clock = 0)
      => \A k \in 1..Len(S) : S[k].when = SumDur(S, k - 1)

\* the last start is the first one since the interruption it follows
FirstAfterInterrupt(log) ==
  /\ Last(log).afterIntr # 0
  /\ \A j \in 1..(Len(log) - 1) : log[j].afterIntr # Last(log).afterIntr

\* C2: interruption resets ordering.  The step that applies an interruption
\* stops every handle of activeSources, empties the set and sets the cursor
\* to 0; the first buffer started afterwards is given a start time that is not
\* after the device's clock at the start call, so it plays at once, at the
\* device's current time: never at a cursor value from before the interruption.
C2_InterruptResets ==
  [][/\ lastIntr' # lastIntr =>
          /\ activeSources' = {}
          /\ activeSources \subseteq stoppedSrc'
          /\ cursor' = 0
     /\ (Len(started') > Len(started) /\ FirstAfterInterrupt(started')) =>
          Last(started').when <= Last(started').clock
    ]_vars

\* an interruption stopped a playing buffer while the cursor was ahead of the
\* clock, and a chunk that arrived later was started at the clock, 1
C2_StartAfterInterrupt ==
  \E k \in 1..Len(started) :
    /\ started[k].afterIntr # 0
    /\ started[k].id > started[k].afterIntr
    /\ started[k].when = 1 /\ started[k].clock = 1
    /\ \E j \in 1..(k - 1) : /\ started[j].id \in stoppedSrc
                             /\ started[j].id < started[k].afterIntr
                             /\ started[j].when + started[j].dur > 1

\* C3: barge-in cutoff.  A chunk that arrived before an Interrupted event is
\* not started after that event was handled, and no handle of such a chunk is
\* in activeSources afterwards.
C3_BargeInCutoff ==
  /\ \A k \in 1..Len(started) : started[k].id > started[k].afterIntr
  /\ \A id \in activeSources : id > lastIntr

\* C4: inbound events take effect one at a time and in arrival order.  No
\* handler begins while another one is suspended at its decode, and buffers
\* are started in the order in which their chunks arrived.
C4_Serialized ==
  [][/\ Len(evlog') > Len(evlog) => decoding = {}
     /\ (Len(started') > Len(started) /\ Len(started) > 0) =>
          Last(started).id < Last(started').id
    ]_vars

\* the text carried by message number id for the given role
InPart(m, id) == IF m.inp THEN <<id>> ELSE <<>>
OutPart(m, id) == IF m.out THEN <<id>> ELSE <<>>

\* C5: turn ordering.  A turn-complete message appends to the transcript the
\* user turn holding the pending input text, if that is not empty, then the
\* model turn holding the pending output text, if that is not empty, and
\* nothing else; both accumulators are empty afterwards.
C5_TurnOrdering ==
  [][(Len(evlog') > Len(evlog) /\ Last(evlog').msg.tc) =>
       LET m == Last(evlog').msg
           id == Len(evlog')
           u == pendingInput \o InPart(m, id)
           t == pendingOutput \o OutPart(m, id)
       IN /\ transcription' =
               transcription
                 \o (IF u # <<>> THEN <<[role |-> "user", text |-> u]>> ELSE <<>>)
                 \o (IF t # <<>> THEN <<[role |-> "model", text |-> t]>> ELSE <<>>)
          /\ pendingInput' = <<>>
          /\ pendingOutput' = <<>>
    ]_vars

\* one flush gave a user turn and then a model turn although the output
\* partial had arrived before the input partial
C5_UserBeforeModel ==
  \E i \in 1..(Len(transcription) - 1) :
    /\ transcription[i].role = "user"
    /\ transcription[i + 1].role = "model"
    /\ transcription[i + 1].text[1] < transcription[i].text[1]

RECURSIVE TextOf(_, _)
\* the texts of the turns of role r in a transcript, concatenated in order
TextOf(log, r) ==
  IF log = <<>> THEN <<>>
  ELSE (IF Head(log).role = r THEN Head(log).text ELSE <<>>) \o TextOf(Tail(log), r)

RECURSIVE PartsIn(_, _, _)
\* the input (inp = TRUE) or output partial texts carried by the messages
\* number from..to, concatenated in arrival order
PartsIn(from, to, inp) ==
  IF from > to THEN <<>>
  ELSE PartsIn(from, to - 1, inp)
         \o (IF inp THEN InPart(evlog[to].msg, to) ELSE OutPart(evlog[to].msg, to))

\* the arrival number of the last turn-complete message, 0 if there is none
LastTurnComplete ==
  LET S == {j \in 1..Len(evlog) : evlog[j].msg.tc} IN
    IF S = {} THEN 0 ELSE CHOOSE j \in S : \A i \in S : i <= j

\* C6: nothing is dropped and nothing is emitted twice.  The user-turn texts
\* of the transcript, concatenated, are the input partials that arrived up to
\* the last turn-complete message, in arrival order; likewise the model-turn
\* texts and the output partials; the accumulators hold exactly the partials
\* that arrived after it.
C6_NoTextLost ==
  LET n == Len(evlog)
      c == LastTurnComplete
  IN /\ TextOf(transcription, "user") = PartsIn(1, c, TRUE)
     /\ TextOf(transcription, "model") = PartsIn(1, c, FALSE)
     /\ pendingInput = PartsIn(c + 1, n, TRUE)
     /\ pendingOutput = PartsIn(c + 1, n, FALSE)

\* C7: every partial is appended to its own accumulator.  A message appends
\* its input partial to the pending input text and its output partial to the
\* pending output text, before the flush if it also carries turn-complete.
C7_PartialsAppended ==
  [][Len(evlog') > Len(evlog) =>
       LET m == Last(evlog').msg
           id == Len(evlog')
           u == pendingInput \o InPart(m, id)
           t == pendingOutput \o OutPart(m, id)
       IN IF m.tc
            THEN /\ TextOf(transcription', "user")
                      = TextOf(transcription, "user") \o u
                 /\ TextOf(transcription', "model")
                      = TextOf(transcription, "model") \o t
            ELSE /\ pendingInput' = u
                 /\ pendingOutput' = t
    ]_vars

\* C8: stop() twice in a row from Active.  After the second run of the stop
\* routine the session is neither active nor connecting and close was invoked
\* exactly once on the connection and on each audio context of the session.
C8_StopIdempotent ==
  stopRuns = 2 =>
    /\ ~isActive /\ ~isConnecting
    /\ closeCalls[activeAtt] = [conn |-> 1, input |-> 1, output |-> 1]

\* the frames sent on the connection of attempt a
SentOf(log, a) == SelectSeq(log, LAMBDA f : f.att = a)

\* C9: nothing is observed after stop().  Once the stop routine has run on
\* the Active session of attempt a, no frame is sent on its connection, no
\* buffer of one of its chunks is started or added to activeSources, and no
\* message of it appends a turn.
C9_QuietAfterStop ==
  [][\A a \in stoppedActive :
       /\ SentOf(sent', a) = SentOf(sent, a)
       /\ StartsOf(a)' = StartsOf(a)
       /\ (Len(evlog') > Len(evlog) /\ Last(evlog').att = a) =>
            transcription' = transcription
    ]_vars

\* C10: stop() before the session is Active.  An attempt that was waiting for
\* the microphone or for the handshake when the stop routine ran never runs
\* its open callback (which makes the session Active and starts the capture),
\* never has an open connection and is never stored as the current session.
C10_StopWhileConnecting ==
  \A a \in stoppedEarly :
    /\ ~captureOn[a]
    /\ conn[a] # "open"
    /\ \A i \in 1..Cur : sessionRef[i] # a

\* ------------------------------------------------------------------ claims C11..C20
\* C11: resource release on stop.  Once the stop routine has run on the
\* Active session of attempt a, the connection of a is no longer open, the
\* microphone stream that a obtained is released, and both audio contexts of
\* a are closed.
C11_ReleasedOnStop ==
  \A a \in stoppedActive :
    /\ conn[a] \notin {"opening", "open"}
    /\ a \notin micStream
    /\ inCtx[a] = "closed"
    /\ outCtx[a] = "closed"

\* C12: teardown order.  The close calls of a run of the stop routine come in
\* the order connection, input context, output context; and the output
\* context of a session is never closed while the connection of that session
\* is open or being opened.
C12_TeardownOrder ==
  LET T == Closes(sessionRef[Cur], audioContextRef[Cur],
                  outputAudioContextRef[Cur])
      Rank(r) == CASE r = "conn" -> 1 [] r = "input" -> 2 [] r = "output" -> 3
  IN
    /\ \A j, k \in 1..Len(T) : j < k => Rank(T[j].res) < Rank(T[k].res)
    /\ \A a \in Atts : outCtx[a] = "closed" => conn[a] \notin {"opening", "open"}

\* C13: no outbound audio before the transport is ready.  The capture of an
\* attempt is started only by the step in which its connection opens, and a
\* frame goes out on the connection of an attempt only when that connection
\* has opened and the session handle of the attempt has resolved.
C13_CaptureAfterOpen ==
  [][\A a \in Atts :
       /\ (captureOn'[a] /\ ~captureOn[a]) =>
            (conn[a] = "opening" /\ conn'[a] = "open")
       /\ SentOf(sent', a) # SentOf(sent, a) =>
            (captureOn[a] /\ startPc'[a] = "done")
    ]_vars

\* a block was captured on the open connection before the handle resolved,
\* and it was held back
C13_FrameHeldBack ==
  \E a \in Atts :
    /\ conn[a] = "open" /\ startPc[a] = "connect"
    /\ deferred[a] # <<>>
    /\ SentOf(sent, a) = <<>>

\* C14: device failure on start.  The step in which an attempt of the
\* component on the page fails to get the microphone (no media-device
\* support, no device, permission denied) leaves that attempt without
\* connection, audio contexts, stream and capture, the session neither
\* connecting nor active, and a non-empty error message; it starts no other
\* attempt, and the start button is then offered again.
C14_DeviceFailure ==
  [][\A a \in Atts :
       (/\ mounted /\ inst'[a] = Cur
        /\ startPc[a] \in {"idle", "mic"} /\ startPc'[a] = "done") =>
         /\ conn'[a] = "none" /\ inCtx'[a] = "none" /\ outCtx'[a] = "none"
         /\ a \notin micStream' /\ ~captureOn'[a]
         /\ ~isConnecting' /\ ~isActive'
         /\ error' \in MicErrors \cup {"unsupported"}
         /\ \A b \in Atts \ {a} : startPc'[b] = startPc[b]
         /\ mounted'
    ]_vars

\* C15: unauthorized start.  While the authorization signal is false, no
\* attempt of the voice session opens the capture device, asks for a
\* connection or becomes Active, and an attempt made without the signal has
\* invoked the key selector.
C15_UnauthorizedStart ==
  ~isKeySelected =>
    /\ micStream = {}
    /\ \A a \in Atts : conn[a] = "none" /\ ~captureOn[a]
    /\ ~isActive
    /\ nAtt > 0 => keyRequests > 0

\* C16: transport error in an Active session.  The step in which the
\* connection of the Active session reports an error leaves the session
\* neither active nor connecting, with close invoked on the connection, both
\* audio contexts of the session closed and its microphone stream released,
\* and with a non-empty error message, so that the start button is offered.
C16_ErrorTeardown ==
  [][\A a \in Atts :
       (/\ mounted /\ Active /\ sessionRef[Cur] = a
        /\ conn[a] = "open" /\ conn'[a] = "errored") =>
         /\ ~isActive' /\ ~isConnecting'
         /\ closeCalls'[a].conn >= 1
         /\ inCtx'[a] = "closed" /\ outCtx'[a] = "closed"
         /\ a \notin micStream'
         /\ error' = "lost"
         /\ mounted'
    ]_vars

\* C17: unexpected remote close.  When the close callback runs for an open
\* connection on which the stop routine has not called close (the remote side
\* closed it), the teardown is done and a non-empty error message is set;
\* when it runs for a connection that the stop routine closed, the error
\* message is left as it was.
C17_RemoteClose ==
  [][\A a \in Atts :
       /\ (mounted /\ conn[a] = "open" /\ conn'[a] = "closed") =>
            /\ ~isActive' /\ ~isConnecting'
            /\ error' # "null"
       /\ (mounted /\ conn[a] = "closing" /\ conn'[a] = "closed") =>
            error' = error
    ]_vars

\* C18: failure while Connecting.  The step in which the connect promise of
\* an attempt rejects, after its microphone stream and audio contexts were
\* acquired, leaves both contexts of the attempt closed and its stream
\* released, and the error message set.
C18_ConnectFailureTeardown ==
  [][\A a \in Atts :
       (/\ mounted /\ startPc[a] = "connect" /\ ~captureOn[a]
        /\ startPc'[a] = "done") =>
         /\ inCtx'[a] = "closed" /\ outCtx'[a] = "closed"
         /\ a \notin micStream'
         /\ error' # "null"
    ]_vars

\* the attempts whose connection is open or being opened
Outstanding == {a \in Atts : conn[a] \in {"opening", "open"}}

\* C19: at most one outstanding connection.  In every state at most one
\* connection is open or being opened; and in the step that begins a new
\* attempt, no earlier attempt has a connection open or being opened, a
\* running audio context or a microphone stream.
C19_OneConnection ==
  [][/\ Cardinality(Outstanding') <= 1
     /\ nAtt' > nAtt =>
          \A b \in 1..nAtt :
            /\ b \notin Outstanding
            /\ inCtx[b] # "running" /\ outCtx[b] # "running"
            /\ b \notin micStream
    ]_vars

\* the arrival numbers of the messages of the session of attempt a
ChunksOf(log, a) == {j \in 1..Len(log) : log[j].att = a}

\* C20: a new session starts from scratch on the playback side.  When the
\* connection of an attempt opens, the cursor is 0 and activeSources is
\* empty; the first buffer of a session, started on the session's own output
\* context, is given a start time not after that context's clock; and an
\* interruption stops only handles of chunks of the session it arrived in.
C20_FreshPlayback ==
  [][/\ \A a \in Atts :
          (captureOn'[a] /\ ~captureOn[a]) =>
            (cursor' = 0 /\ activeSources' = {})
     /\ (/\ Len(started') > Len(started)
         /\ \A k \in 1..Len(started) : started[k].att # Last(started').att
         /\ Last(started').clock >= 0) =>
          Last(started').when <= Last(started').clock
     /\ lastIntr' # lastIntr =>
          (stoppedSrc' \ stoppedSrc) \subseteq ChunksOf(evlog', evlog'[lastIntr'].att)
    ]_vars

\* ------------------------------------------------------------------ claims C21..C30
\* C21: a new session starts from scratch on the transcript side.  The turns
\* that a turn-complete message appends hold only partial texts of messages
\* of the session in which that message arrived.
C21_FreshTranscript ==
  [][(Len(evlog') > Len(evlog) /\ Last(evlog').msg.tc) =>
       \A k \in (Len(transcription) + 1)..Len(transcription') :
         \A i \in 1..Len(transcription'[k].text) :
           evlog'[transcription'[k].text[i]].att = Last(evlog').att
    ]_vars

\* ------------------------------------------------------------------ the capture codec
\* line 323: the factor between a sample and its 16-bit value
Scale == 32768
\* line 321: the width of an element of an Int16Array
Int16Bits == 16
\* samples are multiples of 1 / (Resolution * Scale)
Resolution == 2
\* samples are taken up to MaxOff such units around -1, -1/2, 0, 1/2 and 1
MaxOff == 8

\* a sample s is held as the integer s * Resolution * Scale
Samples ==
  {k * ((Resolution * Scale) \div 2) + d : k \in -2..2, d \in -MaxOff..MaxOff}

\* line 323: inputData[i] * 32768, in units of 1 / Resolution
Scaled(s) == s

\* storing a number into an Int16Array: the fraction is dropped (towards 0)
\* and the integer is taken modulo 2^16 into -2^15 .. 2^15 - 1
ToInt16(x) ==
  LET n == IF x >= 0 THEN x \div Resolution ELSE -((-x) \div Resolution)
      half == 2 ^ (Int16Bits - 1)
  IN ((n + half) % (2 ^ Int16Bits)) - half

\* the 16-bit value read back as a sample: divided by 32768
FromInt16(v) == v * Resolution

\* a block is about to be converted: one sample of it
InitCodec ==
  /\ InitPage /\ hasKey /\ mediaDevices
  /\ inputData \in Samples
  /\ int16 = 0 /\ outputData = 0 /\ codecPc = "raw" /\ readAt = {}

\* lines 321-324: one pass of the loop that fills int16
encodeSample ==
  /\ codecPc = "raw"
  /\ int16' = ToInt16(Scaled(inputData))
  /\ codecPc' = "encoded"
  /\ UNCHANGED <<appVars, readAt, video, reactVars, refVars, playVars, textVars, platVars,
                 capVars, histVars, outTime, evlog, inputData, outputData>>

\* the receiver reads the 16-bit value back
decodeSample ==
  /\ codecPc = "encoded"
  /\ outputData' = FromInt16(int16)
  /\ codecPc' = "decoded"
  /\ UNCHANGED <<appVars, readAt, video, reactVars, refVars, playVars, textVars, platVars,
                 capVars, histVars, outTime, evlog, inputData, int16>>

NextCodec == encodeSample \/ decodeSample

SpecCodec == InitCodec /\ [][NextCodec]_vars

\* C22: a sample beyond the 16-bit range is stored as the nearest end of the
\* range, never wrapped: the stored value is max(-32768, min(32767, v)) for
\* the scaled sample v (its fraction dropped), so that a scaled value of
\* 32767 or more, the sample 1.0 included, gives 32767 and one of -32768 or
\* less gives -32768.
C22_Clamped ==
  codecPc # "raw" =>
    LET v == IF inputData >= 0 THEN Scaled(inputData) \div Resolution
                               ELSE -((-Scaled(inputData)) \div Resolution)
        lo == -(2 ^ (Int16Bits - 1))
        hi == 2 ^ (Int16Bits - 1) - 1
    IN int16 = Max(lo, IF v > hi THEN hi ELSE v)

\* C23: for every sample s from -1 to 1, both ends included, the value read
\* back from the 16-bit value of s is within 1/32768 of s.
C23_RoundTrip ==
  (codecPc = "decoded" /\ inputData >= -(Resolution * Scale)
                       /\ inputData <= Resolution * Scale) =>
    /\ outputData - inputData <= Resolution
    /\ inputData - outputData <= Resolution

\* C24: an audio chunk that cannot be decoded is not fatal.  When its
\* handling ends, no buffer was started, nothing was added to activeSources,
\* the session is still Active, and the other parts of the same message were
\* handled: an interruption flag it carried was applied (every live source
\* stopped, activeSources empty, the cursor at 0).
C24_BadChunkNonFatal ==
  [][\A h \in decoding :
       (h.audio = "bad" /\ h \notin decoding') =>
         /\ started' = started
         /\ activeSources' \subseteq activeSources
         /\ isActive'
         /\ h.intr => /\ activeSources' = {}
                      /\ activeSources \subseteq stoppedSrc'
                      /\ cursor' = 0
    ]_vars

\* C25: no silent failure.  The handling of a chunk that cannot be decoded
\* changes what the caller can see of the session (its error indication):
\* the state shown is not the one shown before.
C25_BadChunkReported ==
  [][\A h \in decoding :
       (h.audio = "bad" /\ h \notin decoding') => reactVars' # reactVars
    ]_vars

\* ------------------------------------------------------------------ one conversation
\* the parts of a message that carries nothing
Empty ==
  [out |-> FALSE, inp |-> FALSE, tc |-> FALSE, audio |-> "none", dur |-> 0,
   intr |-> FALSE]

\* what the server sends to every session, in this order: two partial output
\* texts ("Hel", "lo"), an audio chunk, the end of the turn, a second audio
\* chunk, an interruption, and a partial output text that ends a turn
Script ==
  << [Empty EXCEPT !.out = TRUE],
     [Empty EXCEPT !.out = TRUE],
     [Empty EXCEPT !.audio = "ok", !.dur = 1],
     [Empty EXCEPT !.tc = TRUE],
     [Empty EXCEPT !.audio = "ok", !.dur = 1],
     [Empty EXCEPT !.intr = TRUE],
     [Empty EXCEPT !.out = TRUE, !.tc = TRUE] >>

\* the arrival numbers of the messages of the session of attempt a, in order
ArrivalsOf(log, a) ==
  LET idx == [j \in 1..Len(log) |-> j] IN
    SelectSeq(idx, LAMBDA j : log[j].att = a)

\* the session of attempt a receives the next message of the script
onmessageScript(a) ==
  LET n == Len(ArrivalsOf(evlog, a)) IN
  /\ n < Len(Script)
  /\ onmessage(a, Script[n + 1])

\* the life cycle of sessions that all hold this conversation: started and
\* stopped by the user, ended by a connection error or closed
NextScript ==
  \/ \E a \in Atts : sessionResolved(a)
  \/ Settled /\ nAtt < MaxAttempts /\ ClickStart
  \/ Settled /\ ClickStop
  \/ Settled /\ \E a \in Atts : MicGranted(a)
  \/ Settled /\ \E a \in Atts : onopen(a)
  \/ Settled /\ \E a \in Atts : onerror(a)
  \/ Settled /\ \E a \in Atts : onclose(a)
  \/ Settled /\ Len(evlog) < MaxScriptEvents
             /\ \E a \in Atts : onmessageScript(a)
  \/ Settled /\ \E h \in decoding : decodeDone(h)
  \/ Settled /\ \E k \in 1..Len(started) : sourceEnded(k)
  \/ Settled /\ \E i \in 1..Cur : Tick(i)

\* the page with a key selected and a microphone interface
InitScript == InitVoice /\ hasKey /\ mediaDevices

SpecScript == InitScript /\ [][NextScript]_vars

\* the messages that carry text or end a turn, and no audio
TextMessages == {m \in Messages : Parts(m) = 1 /\ m.audio = "none" /\ ~m.intr}

\* the life cycle of sessions whose messages carry text only: started and
\* stopped by the user, and closed
NextTurns ==
  \/ \E a \in Atts : sessionResolved(a)
  \/ Settled /\ nAtt < MaxAttempts /\ ClickStart
  \/ Settled /\ ClickStop
  \/ Settled /\ \E a \in Atts : MicGranted(a)
  \/ Settled /\ \E a \in Atts : onopen(a)
  \/ Settled /\ \E a \in Atts : onclose(a)
  \/ Settled /\ Len(evlog) < MaxTurnEvents
             /\ \E a \in Atts, m \in TextMessages : onmessage(a, m)

SpecTurns == InitScript /\ [][NextTurns]_vars

\* C27: the transcript log is append-only within a session.  From the reset
\* made by start() until the next start(), every step of a component leaves
\* the turns that were in the log as a prefix of the log; only start() empties
\* it.
C27_AppendOnly ==
  [][(nAtt' = nAtt /\ Cur' = Cur) =>
       /\ Len(transcription') >= Len(transcription)
       /\ SubSeq(transcription', 1, Len(transcription)) = transcription
    ]_vars

\* a second flush of a session has left the turn of the first in front of
\* its own, and the session was stopped afterwards
C27_TwoFlushesKept ==
  /\ Len(transcription) = 2
  /\ transcription[1].text # transcription[2].text
  /\ ~isActive /\ stopRuns > 0

\* C26: the end-to-end conversation.  When the session of the last start()
\* has handled the two partial output texts, the first audio chunk (started
\* while the device clock read 0) and the end of the turn, the transcript is
\* the one model turn made of the two partial texts and exactly one buffer
\* was started, at time 0.  When the interruption arrives while the second
\* chunk is playing, its handle is stopped, activeSources is empty and the
\* cursor is 0.
C26_Conversation ==
  [][/\ LET A == ArrivalsOf(evlog', nAtt')
            S == SelectSeq(started', LAMBDA e : e.att = nAtt')
        IN (/\ mounted' /\ nAtt' > 0 /\ Len(A) = 4
            /\ \A h \in decoding' : h.att # nAtt'
            /\ Len(S) > 0 /\ S[1].clock = 0) =>
             /\ transcription' = <<[role |-> "model", text |-> <<A[1], A[2]>>]>>
             /\ Len(S) = 1
             /\ S[1].when = 0
     /\ LET A == ArrivalsOf(evlog', nAtt) IN
          (/\ Len(evlog') > Len(evlog) /\ Len(A) = 6 /\ Last(evlog').att = nAtt
           /\ A[5] \in activeSources) =>
             /\ A[5] \in stoppedSrc'
             /\ activeSources' = {}
             /\ cursor' = 0
    ]_vars

\* C28: re-authorization is re-checked.  When the key selector has returned,
\* the authorization signal equals what a fresh look at the key selection
\* answers: it is not true while still no key is selected.
C28_Rechecked ==
  [][aistudio'.openSelectKey < aistudio.openSelectKey =>
       isKeySelected' = hasKey']_vars

\* C29: the playback cursor is monotone.  Within a session the cursor never
\* decreases from one step to the next, except in the step that handles an
\* interruption, where it becomes 0; and the handling of an audio chunk
\* leaves it not below its value before and not below the device time read
\* when the chunk arrived plus the chunk's duration.
C29_CursorMonotone ==
  [][/\ cursor' < cursor =>
          (lastIntr' # lastIntr /\ cursor' = 0)
     /\ \A h \in decoding :
          (h.audio = "ok" /\ ~h.intr /\ h \notin decoding') =>
             /\ cursor' >= cursor
             /\ \A r \in readAt :
                  r.id = h.id => cursor' >= r.now + h.dur
    ]_vars

\* C30: activeSources holds exactly the live handles.  While a session is
\* Active, a handle is in activeSources if and only if its buffer was started
\* in this session, has not played to its end and was not stopped by an
\* interruption; and natural completion removes that one handle and leaves
\* the cursor and the other handles as they were.
C30_LiveHandles ==
  [][/\ Active' =>
          activeSources' =
            {started'[k].id : k \in {j \in 1..Len(started') :
                                       started'[j].att = activeAtt'}}
              \ (endedSrc' \cup stoppedSrc')
     /\ \A k \in 1..Len(started) :
          (started[k].id \in endedSrc' \ endedSrc) =>
             /\ activeSources' = activeSources \ {started[k].id}
             /\ cursor' = cursor
    ]_vars

\* ------------------------------------------------------------------ claims C31..C34
\* the status shown by the component: derived from isConnecting and isActive
Status(c, a) ==
  IF c /\ a THEN "Both"
  ELSE IF c THEN "Connecting"
  ELSE IF a THEN "Active" ELSE "Idle"

\* C31: session status transitions.  The status is never connecting and
\* active at once, and it changes only from Idle to Connecting (a start),
\* from Connecting to Active (the open callback of the connection of the
\* current attempt), from Connecting to Idle and from Active to Idle; it
\* never becomes Active from Idle.
C31_StatusTransitions ==
  [][LET old == Status(isConnecting, isActive)
         new == Status(isConnecting', isActive')
     IN /\ new # "Both"
        /\ new # old =>
             \/ old = "Idle" /\ new = "Connecting" /\ nAtt' = nAtt + 1
             \/ /\ old = "Connecting" /\ new = "Active"
                /\ conn[nAtt] = "opening" /\ conn'[nAtt] = "open"
             \/ old = "Connecting" /\ new = "Idle"
             \/ old = "Active" /\ new = "Idle"
    ]_vars

\* ------------------------------------------------------------------ capture
\* the life cycle with up to MaxCaptureFrames captured blocks and no inbound
\* message
NextCapture ==
  \/ \E a \in Atts : sessionResolved(a)
  \/ Settled /\ nAtt < MaxAttempts /\ ClickStart
  \/ Settled /\ ClickStop
  \/ Settled /\ \E a \in Atts : MicGranted(a)
  \/ Settled /\ \E a \in Atts : onopen(a)
  \/ Settled /\ \E a \in Atts : onerror(a)
  \/ Settled /\ \E a \in Atts : onclose(a)
  \/ nFrames < MaxCaptureFrames /\ \E a \in Atts : onaudioprocess(a)

SpecCapture == InitScript /\ [][NextCapture]_vars

\* the blocks sent on the connection of attempt a followed by the blocks of
\* a whose sends are deferred
BlocksOf(a) ==
  LET S == SentOf(sent, a) IN [i \in 1..Len(S) |-> S[i].frame] \o deferred[a]

\* C32: outbound frames keep capture order.  On each connection the blocks
\* are sent in the order in which they were captured, the blocks whose sends
\* were deferred until the session promise resolved included; every captured
\* block is sent or still deferred, none twice; and once the promise has
\* resolved no send is deferred: each block captured by the Active session
\* has produced its one send.
C32_CaptureOrder ==
  /\ \A a \in Atts :
       \A i, j \in 1..Len(BlocksOf(a)) : i < j => BlocksOf(a)[i] < BlocksOf(a)[j]
  /\ \A i, j \in 1..Len(sent) : i < j => sent[i].frame # sent[j].frame
  /\ UNION {{BlocksOf(a)[i] : i \in 1..Len(BlocksOf(a))} : a \in Atts} = 1..nFrames
  /\ \A a \in Atts : Resolved(a) => deferred[a] = <<>>

\* an Active session has sent every block of the bound, in capture order
C32_AllBlocksSent ==
  /\ Active
  /\ Len(SentOf(sent, activeAtt)) = MaxCaptureFrames
  /\ nFrames = MaxCaptureFrames

\* ------------------------------------------------------------------ VideoStudio
\* lines 46, 296: the number of reference images below which a file is taken
MaxRefImages == 3

\* the calls of generateVideo made so far
Gens == 1..Len(video.gens)

\* a setter of React state of the VideoStudio that made the call g does
\* nothing unless that component is on the page
OnPage(g) == mode = "VIDEO" /\ video.gens[g].inst = video.inst

\* the calls of generateVideo that have not run to their end
UnderWay(v) == {g \in 1..Len(v.gens) : v.gens[g].pc # "done"}

\* lines 44-51: a file is chosen in the "Asset References" input, shown while
\* the list is shorter than 3 (line 296); its read is started
handleAddRefImage ==
  /\ mode = "VIDEO"
  /\ video.picked < MaxPicks
  /\ Len(video.refImages) < MaxRefImages
  /\ video' = [video EXCEPT !.picked = @ + 1, !.reading = @ \cup {video.picked + 1}]
  /\ UNCHANGED <<appVars, voiceVars>>

\* line 48: reader.onload of file f appends the image to the list as it is now
readerOnload(f) ==
  /\ f \in video.reading
  /\ video' = [video EXCEPT !.reading = @ \ {f}, !.refImages = Append(@, f)]
  /\ UNCHANGED <<appVars, voiceVars>>

\* line 289: the image at position idx is removed
removeRefImage(idx) ==
  /\ mode = "VIDEO"
  /\ idx \in 1..Len(video.refImages)
  /\ video' = [video EXCEPT !.refImages =
                 SubSeq(@, 1, idx - 1) \o SubSeq(@, idx + 1, Len(@))]
  /\ UNCHANGED <<appVars, voiceVars>>

\* lines 147-150: the finally block of the call g of generateVideo
Finally(v, g) ==
  [v EXCEPT !.isGenerating = IF OnPage(g) THEN FALSE ELSE @,
            !.status = IF OnPage(g) THEN "" ELSE @,
            !.gens[g].pc = "done"]

\* line 128: clearInterval(statusInterval) of the call g
ClearInterval(v, g) == [v EXCEPT !.timers = @ \ {g}]

\* lines 139-150: the catch block of the call g, then its finally block; an
\* error that says "Requested entity was not found" calls onOpenKeySelector
\* (App.tsx, lines 34-36)
Failed(g, notFound) ==
  /\ video' = Finally(video, g)
  /\ IF notFound THEN openSelectKey ELSE UNCHANGED <<keyRequests, aistudio>>
  /\ UNCHANGED <<mode, isKeySelected, hasKey, voiceVars>>

\* lines 53-91/103: "Generate Movie" (disabled while isGenerating, line 239),
\* up to the first await; without the signal onOpenKeySelector is called
\* instead (lines 54-57)
generateVideo ==
  /\ mode = "VIDEO" /\ ~video.isGenerating
  /\ IF ~isKeySelected
       THEN /\ openSelectKey
            /\ UNCHANGED <<mode, isKeySelected, hasKey, video, voiceVars>>
       ELSE /\ Len(video.gens) < MaxGenerations
            /\ video' = [video EXCEPT
                 !.isGenerating = TRUE, !.videoUrl = 0,
                 !.status = "Initializing",
                 !.gens = Append(@, [pc |-> "request", inst |-> video.inst]),
                 !.timers = @ \cup {Len(video.gens) + 1},
                 !.requests = @ + 1]
            /\ UNCHANGED <<appVars, voiceVars>>

\* lines 76-79: the callback of the status timer of the call g
statusTick(g) ==
  /\ g \in video.timers
  /\ video' = [video EXCEPT !.status = IF OnPage(g) THEN "Loading" ELSE @]
  /\ UNCHANGED <<appVars, voiceVars>>

\* lines 91/103: generateVideos resolves with an operation
requestAccepted(g) ==
  /\ g \in Gens /\ video.gens[g].pc = "request"
  /\ video' = [video EXCEPT !.gens[g].pc = "poll"]
  /\ UNCHANGED <<appVars, voiceVars>>

\* lines 91/103: generateVideos rejects
requestFailed(g, notFound) ==
  g \in Gens /\ video.gens[g].pc = "request" /\ Failed(g, notFound)

\* line 125: getVideosOperation rejects
pollFailed(g, notFound) ==
  g \in Gens /\ video.gens[g].pc = "poll" /\ Failed(g, notFound)

\* lines 123-138: the operation is done; the timer is cleared; with a video
\* URI the download starts, without one the handler throws
operationDone(g, uri) ==
  /\ g \in Gens /\ video.gens[g].pc = "poll"
  /\ IF uri
       THEN video' = [ClearInterval(video, g) EXCEPT
                        !.status = IF OnPage(g) THEN "Downloading" ELSE @,
                        !.gens[g].pc = "download"]
       ELSE video' = Finally(ClearInterval(video, g), g)
  /\ UNCHANGED <<appVars, voiceVars>>

\* lines 133-135: the download ends and the video is shown
downloadDone(g) ==
  /\ g \in Gens /\ video.gens[g].pc = "download"
  /\ video' = [Finally(video, g) EXCEPT
                 !.videoUrl = IF OnPage(g) THEN g ELSE @]
  /\ UNCHANGED <<appVars, voiceVars>>

\* lines 133-134: fetch or blob() rejects
downloadFailed(g) ==
  g \in Gens /\ video.gens[g].pc = "download" /\ Failed(g, FALSE)

\* the whole page from its load: navigation, the key selection, and
\* VideoStudio with its calls of generateVideo
NextVideo ==
  \/ \E m \in Modes : Shows(m) /\ setMode(m)
  \/ checkKeyResolved
  \/ checkKeyRejected
  \/ keyRequests < MaxKeyRequests /\ handleOpenKeySelector
  \/ openSelectKeyResolved
  \/ openSelectKeyRejected
  \/ handleAddRefImage
  \/ \E f \in video.reading : readerOnload(f)
  \/ \E idx \in 1..MaxRefImages + MaxPicks : removeRefImage(idx)
  \/ (~isKeySelected => keyRequests < MaxKeyRequests) /\ generateVideo
  \/ \E g \in video.timers : statusTick(g)
  \/ \E g \in Gens : requestAccepted(g)
  \/ \E g \in Gens, n \in BOOLEAN :
       (n => keyRequests < MaxKeyRequests) /\ requestFailed(g, n)
  \/ \E g \in Gens, n \in BOOLEAN :
       (n => keyRequests < MaxKeyRequests) /\ pollFailed(g, n)
  \/ \E g \in Gens, u \in BOOLEAN : operationDone(g, u)
  \/ \E g \in Gens : downloadDone(g)
  \/ \E g \in Gens : downloadFailed(g)

\* the page loaded in a browser with a microphone interface
InitVideo == Init /\ mediaDevices

SpecVideo == InitVideo /\ [][NextVideo]_vars

\* C33: the reference-image bound.  The list of asset reference images never
\* holds more than 3 entries, also when several files were taken while the
\* list was shorter than 3 and their reads end afterwards.
C33_RefImagesBound == Len(video.refImages) <= MaxRefImages

\* C34: video generation always settles.  When no call of generateVideo is
\* under way, isGenerating is false, the status text is empty and no status
\* timer of an earlier call is alive (so the text stays empty until the next
\* generation); and a call without a key selected opens the key selector,
\* issues no request and leaves isGenerating false.
C34_GenerationSettles ==
  [][/\ UnderWay(video') = {} =>
          /\ ~video'.isGenerating
          /\ video'.status = ""
          /\ video'.timers = {}
     /\ (/\ mode = "VIDEO" /\ ~isKeySelected /\ ~video.isGenerating
         /\ keyRequests' # keyRequests /\ video'.gens = video.gens) =>
          /\ video'.requests = video.requests
          /\ ~video'.isGenerating
    ]_vars

====
